---- MODULE Spec2Model ----
(***************************************************************************)
(* Device gateway service (src/index.js): four HTTP routes over one table  *)
(* of the remote datastore, devicesTable.  A handler is split where it     *)
(* awaits the datastore, since other requests run in between.  A select is *)
(* executed by the datastore in the step that sends it: until its result   *)
(* is back nothing tells a request whose select is under way from one not  *)
(* yet received, so the request is taken to arrive when its select runs.   *)
(* The continuation that receives the result is a step of its own, and so  *)
(* are the insert of a registration and the continuation after it.         *)
(***************************************************************************)
EXTENDS Integers, Sequences, FiniteSets

\* Bounds of the model.
MaxReqs == 3        \* requests received in one behaviour
MaxInFlight == 2    \* requests whose handlers have not finished
MaxLiveReqs == 2    \* requests received in one behaviour of LiveSpec

\* The device identifiers clients send and the values generateToken returns.
Devices == {1}
Tokens == {1, 2}
\* 0 stands for an absent (undefined / empty, hence falsy) string.
Absent == 0

VARIABLES devicesTable, reqs

vars == <<devicesTable, reqs>>

\* null of a .single() result
NoRow == [device_id |-> Absent, token |-> Absent, by |-> 0]
NoResult == [row |-> NoRow, rows |-> <<>>, error |-> "none"]

\* The (device_id, token) columns of rows; `by` is the inserting request,
\* kept for the history only.
Columns(rows) == [k \in 1..Len(rows) |->
                    [device_id |-> rows[k].device_id, token |-> rows[k].token]]

\* .eq("device_id", d) and, with useToken, .eq("token", t)
SelectSeq2(rows, d, t, useToken) ==
    SelectSeq(rows, LAMBDA r : r.device_id = d /\ (useToken => r.token = t))

\* .single(): exactly one row gives the row; none or several give the
\* PGRST116 error and null data.
Single(rows) ==
    IF Len(rows) = 1
    THEN [row |-> rows[1], rows |-> <<>>, error |-> "none"]
    ELSE [row |-> NoRow, rows |-> <<>>, error |-> "PGRST116"]

\* A datastore call that fails (network, service error): error set, data null.
Failed == [row |-> NoRow, rows |-> <<>>, error |-> "other"]

\* As Insert, replacing the rows of the same device_id (an upsert).
Insert_Upsert(rows, row) ==
    SelectSeq(rows, LAMBDA r : r.device_id # row.device_id) \o <<row>>

\* .insert([{device_id, token}])
Insert(rows, row) == Append(rows, row)

\* res.status(s).json(...)
Response(status, token, devices) ==
    [status |-> status, token |-> token, devices |-> devices]

\* The register requests already answered 201.
Answered201 ==
    {k \in 1..Len(reqs) :
        /\ reqs[k].route = "register"
        /\ \E n \in 1..Len(reqs[k].responses) : reqs[k].responses[n].status = 201}

\* A register request is in flight from its arrival to the end of its handler.
RegisterInFlight ==
    \E k \in 1..Len(reqs) : reqs[k].route = "register" /\ reqs[k].pc # "done"

\* A request as express hands it to its handler.  deviceId and data are the
\* body fields, device and token the headers; result is the outcome of the
\* select the handler awaits and insertError that of its insert; calls counts
\* the datastore calls the handler made.  seen201, quiet and nmatch are
\* history: the registrations answered 201 when the request arrived, whether
\* no registration was in flight when the list query ran, and how many rows
\* matched the authentication query.
NewReq(route, deviceId, device, token, data) ==
    [route |-> route, deviceId |-> deviceId, device |-> device, token |-> token,
     data |-> data, pc |-> "done", result |-> NoResult, newToken |-> Absent,
     insertError |-> "none",
     responses |-> <<>>, calls |-> 0, nextCalled |-> FALSE,
     seen201 |-> Answered201, quiet |-> FALSE, nmatch |-> 0]

\* The requests whose handler has not finished.
InFlight == {k \in 1..Len(reqs) : reqs[k].pc # "done"}

\* The outcomes of a datastore call whose result is res when it succeeds.
Outcomes(res) == {res, Failed}

\* The server accepts another request.
CanAccept == Len(reqs) < MaxReqs /\ Cardinality(InFlight) < MaxInFlight

Init ==
    /\ devicesTable = <<>>
    /\ reqs = <<>>

----------------------------------------------------------------------------
\* POST /register-device

\* .from("devicesTable").select("*").eq("device_id", deviceId).single()
SelectByDeviceId(deviceId) ==
    Single(SelectSeq2(devicesTable, deviceId, Absent, FALSE))

\* The handler up to its first await: validation, then the existence query,
\* which the datastore answers or fails.
RegisterStart(deviceId) ==
    /\ CanAccept
    /\ LET r == NewReq("register", deviceId, Absent, Absent, FALSE) IN
       \/ /\ deviceId = Absent
          /\ reqs' = Append(reqs,
                [r EXCEPT !.responses = <<Response(400, Absent, <<>>)>>])
       \/ /\ deviceId # Absent
          /\ \E res \in Outcomes(SelectByDeviceId(deviceId)) :
                reqs' = Append(reqs,
                    [r EXCEPT !.pc = "fetched", !.calls = 1, !.result = res])
    /\ UNCHANGED devicesTable

\* As RegisterFetchOutcome, without the check of fetchError.
RegisterFetchOutcome_NoErrorCheck(res) ==
    IF res.row # NoRow THEN 400 ELSE 0

\* What the handler does with the result of the existence query: the status
\* it responds with, or 0 when it goes on to register the device.
RegisterFetchOutcome(res) ==
    IF res.error # "none" /\ res.error # "PGRST116" THEN 500
    ELSE IF res.row # NoRow THEN 400
    ELSE 0

\* crypto.randomBytes(16).toString("hex"): any token value.
generateToken == Tokens

RegisterAfterFetch(i) ==
    /\ reqs[i].route = "register" /\ reqs[i].pc = "fetched"
    /\ LET s == RegisterFetchOutcome(reqs[i].result) IN
       \/ /\ s # 0
          /\ reqs' = [reqs EXCEPT ![i].pc = "done",
                        ![i].responses = Append(@, Response(s, Absent, <<>>))]
       \/ /\ s = 0
          /\ \E t \in generateToken :
               reqs' = [reqs EXCEPT ![i].pc = "insert", ![i].newToken = t,
                          ![i].calls = @ + 1]
    /\ UNCHANGED devicesTable

\* The insert runs at the datastore.
RegisterInsert(i) ==
    /\ reqs[i].route = "register" /\ reqs[i].pc = "insert"
    /\ \/ /\ devicesTable' = Insert(devicesTable,
                               [device_id |-> reqs[i].deviceId,
                                token |-> reqs[i].newToken, by |-> i])
          /\ reqs' = [reqs EXCEPT ![i].pc = "inserted", ![i].insertError = "none"]
       \/ /\ reqs' = [reqs EXCEPT ![i].pc = "inserted", ![i].insertError = "other"]
          /\ UNCHANGED devicesTable

RegisterInsertResponse(r) ==
    IF r.insertError # "none"
    THEN Response(500, Absent, <<>>)
    ELSE Response(201, r.newToken, <<>>)

RegisterAfterInsert(i) ==
    /\ reqs[i].route = "register" /\ reqs[i].pc = "inserted"
    /\ reqs' = [reqs EXCEPT ![i].pc = "done",
                  ![i].responses = Append(@, RegisterInsertResponse(reqs[i]))]
    /\ UNCHANGED devicesTable

----------------------------------------------------------------------------
\* authenticateDevice and POST /upload-data

\* .select("*").eq("device_id", device).eq("token", token).single()
SelectByDeviceAndToken(device, token) ==
    Single(SelectSeq2(devicesTable, device, token, TRUE))

\* authenticateDevice up to its await: the headers, then the query, which the
\* datastore answers or fails.
UploadStart(device, token, data) ==
    /\ CanAccept
    /\ LET r == NewReq("upload", Absent, device, token, data) IN
       \/ /\ (device = Absent \/ token = Absent)
          /\ reqs' = Append(reqs,
                [r EXCEPT !.responses = <<Response(401, Absent, <<>>)>>])
       \/ /\ device # Absent /\ token # Absent
          /\ \E res \in Outcomes(SelectByDeviceAndToken(device, token)) :
                reqs' = Append(reqs,
                    [r EXCEPT !.pc = "fetched", !.calls = 1, !.result = res,
                              !.nmatch = Len(SelectSeq2(devicesTable, device,
                                                        token, TRUE))])
    /\ UNCHANGED devicesTable

\* The handler of POST /upload-data, run by next().
UploadData(r) ==
    IF ~r.data
    THEN <<Response(400, Absent, <<>>)>>
    ELSE <<Response(200, Absent, <<>>)>>

\* if (error || !deviceRecord)
AuthRejects(res) == res.error # "none" \/ res.row = NoRow

\* As AuthenticateContinue, answering a failed query with 500.
AuthenticateContinue_Error500(r) ==
    IF r.result.error = "other" THEN <<Response(500, Absent, <<>>)>>
    ELSE IF r.result.row = NoRow THEN <<Response(403, Absent, <<>>)>>
    ELSE UploadData(r)

\* As AuthenticateContinue, without the return before next().
AuthenticateContinue_NoReturn(r) ==
    IF AuthRejects(r.result)
    THEN <<Response(403, Absent, <<>>)>> \o UploadData(r)
    ELSE UploadData(r)

\* The responses sent by the rest of authenticateDevice and what it calls.
AuthenticateContinue(r) ==
    IF AuthRejects(r.result)
    THEN <<Response(403, Absent, <<>>)>>
    ELSE UploadData(r)

AuthenticateAfterFetch(i) ==
    /\ reqs[i].route = "upload" /\ reqs[i].pc = "fetched"
    /\ reqs' = [reqs EXCEPT ![i].pc = "done",
                  ![i].nextCalled = ~AuthRejects(reqs[i].result),
                  ![i].responses = @ \o AuthenticateContinue(reqs[i])]
    /\ UNCHANGED devicesTable

----------------------------------------------------------------------------
\* GET /list-devices

\* .from("devicesTable").select("*")
SelectAll == [row |-> NoRow, rows |-> devicesTable, error |-> "none"]

\* The handler up to its await: the unfiltered select, which the datastore
\* answers or fails.
ListStart ==
    /\ CanAccept
    /\ \E res \in Outcomes(SelectAll) :
          reqs' = Append(reqs,
              [NewReq("list", Absent, Absent, Absent, FALSE)
                 EXCEPT !.pc = "fetched", !.calls = 1, !.result = res,
                        !.quiet = ~RegisterInFlight])
    /\ UNCHANGED devicesTable

\* As ListResponse, returning one row at most.
ListResponse_FirstRow(res) ==
    IF res.error # "none"
    THEN Response(500, Absent, <<>>)
    ELSE Response(200, Absent,
                  Columns(IF res.rows = <<>> THEN <<>> ELSE <<res.rows[1]>>))

ListResponse(res) ==
    IF res.error # "none"
    THEN Response(500, Absent, <<>>)
    ELSE Response(200, Absent, Columns(res.rows))

ListAfterFetch(i) ==
    /\ reqs[i].route = "list" /\ reqs[i].pc = "fetched"
    /\ reqs' = [reqs EXCEPT ![i].pc = "done",
                  ![i].responses = Append(@, ListResponse(reqs[i].result))]
    /\ UNCHANGED devicesTable

----------------------------------------------------------------------------
\* GET /health

Health ==
    /\ CanAccept
    /\ reqs' = Append(reqs,
                 [NewReq("health", Absent, Absent, Absent, FALSE)
                    EXCEPT !.responses = <<Response(200, Absent, <<>>)>>])
    /\ UNCHANGED devicesTable

----------------------------------------------------------------------------
\* One step of the handler of request i or of its insert.
Step(i) ==
    \/ RegisterAfterFetch(i)
    \/ RegisterInsert(i)
    \/ RegisterAfterInsert(i)
    \/ AuthenticateAfterFetch(i)
    \/ ListAfterFetch(i)

Next ==
    \/ \E deviceId \in {Absent} \cup Devices : RegisterStart(deviceId)
    \/ \E device \in {Absent} \cup Devices, token \in {Absent} \cup Tokens,
          data \in BOOLEAN : UploadStart(device, token, data)
    \/ ListStart
    \/ Health
    \/ \E i \in 1..Len(reqs) : RegisterAfterFetch(i)
    \/ \E i \in 1..Len(reqs) : RegisterInsert(i)
    \/ \E i \in 1..Len(reqs) : RegisterAfterInsert(i)
    \/ \E i \in 1..Len(reqs) : AuthenticateAfterFetch(i)
    \/ \E i \in 1..Len(reqs) : ListAfterFetch(i)

Spec == Init /\ [][Next]_vars

\* The same service receiving at most MaxLiveReqs requests, where every
\* datastore call returns and the event loop runs every continuation that is
\* ready.
LiveNext ==
    \/ /\ Len(reqs) < MaxLiveReqs
       /\ \E deviceId \in {Absent} \cup Devices : RegisterStart(deviceId)
    \/ /\ Len(reqs) < MaxLiveReqs
       /\ \E device \in {Absent} \cup Devices, token \in {Absent} \cup Tokens,
             data \in BOOLEAN : UploadStart(device, token, data)
    \/ Len(reqs) < MaxLiveReqs /\ ListStart
    \/ Len(reqs) < MaxLiveReqs /\ Health
    \/ \E i \in 1..Len(reqs) : RegisterAfterFetch(i)
    \/ \E i \in 1..Len(reqs) : RegisterInsert(i)
    \/ \E i \in 1..Len(reqs) : RegisterAfterInsert(i)
    \/ \E i \in 1..Len(reqs) : AuthenticateAfterFetch(i)
    \/ \E i \in 1..Len(reqs) : ListAfterFetch(i)

LiveSpec ==
    Init /\ [][LiveNext]_vars /\ \A i \in 1..MaxLiveReqs : WF_vars(i <= Len(reqs) /\ Step(i))

----------------------------------------------------------------------------
\* Properties

Reqs == 1..Len(reqs)
Done(i) == reqs[i].pc = "done"
Answered(i) == Len(reqs[i].responses) >= 1
Status(i) == reqs[i].responses[1].status
IsRegister(i) == reqs[i].route = "register"
IsUpload(i) == reqs[i].route = "upload"
IsList(i) == reqs[i].route = "list"
HeadersPresent(i) == reqs[i].device # Absent /\ reqs[i].token # Absent
\* A datastore call of request i failed (other than by .single()'s row count).
CallFailed(i) == reqs[i].result.error = "other" \/ reqs[i].insertError = "other"
RowsBy(i) == {k \in 1..Len(devicesTable) : devicesTable[k].by = i}
RowsOf(d) == {k \in 1..Len(devicesTable) : devicesTable[k].device_id = d}
ResponseContains(resp, t) ==
    \/ resp.token = t
    \/ \E k \in 1..Len(resp.devices) : resp.devices[k].token = t

\* C1: once a registration of d was answered 201, every later registration
\* of d whose datastore calls do not fail is answered 400 and inserts nothing.
C1_LaterRegistrationRejected ==
    \A i \in Reqs :
        ( /\ IsRegister(i) /\ Done(i) /\ ~CallFailed(i)
          /\ \E k \in reqs[i].seen201 : reqs[k].deviceId = reqs[i].deviceId )
        => (Status(i) = 400 /\ RowsBy(i) = {})

\* C2: at most one stored record has any given device_id.
C2_OneRecordPerDevice ==
    \A d \in Devices : Cardinality(RowsOf(d)) <= 1

\* C3: after a registration answered 201 with (d, t), an upload with headers
\* (d, t) and data is answered 200, and an upload with device d and any other
\* token is answered 403 (datastore available).
C3_IssuedTokenAuthenticates ==
    \A u \in Reqs :
        (IsUpload(u) /\ Done(u) /\ HeadersPresent(u) /\ ~CallFailed(u)) =>
            \A a \in reqs[u].seen201 :
                reqs[a].deviceId = reqs[u].device =>
                    LET t == reqs[a].responses[1].token IN
                    /\ (reqs[u].token = t /\ reqs[u].data) => Status(u) = 200
                    /\ reqs[u].token # t => Status(u) = 403

\* C4: the only response containing the token of a stored record is the 201
\* response of the register request that created the record.
C4_TokenSentOnce ==
    \A i \in Reqs : \A n \in 1..Len(reqs[i].responses) :
        \A k \in 1..Len(devicesTable) :
            ResponseContains(reqs[i].responses[n], devicesTable[k].token) =>
                /\ devicesTable[k].by = i
                /\ reqs[i].responses[n].status = 201

SameAsIssued(rows, S) ==
    /\ Len(rows) = Cardinality(S)
    /\ \A p \in [device_id : Devices, token : Tokens] :
          Cardinality({k \in 1..Len(rows) : rows[k] = p}) =
          Cardinality({a \in S : /\ reqs[a].deviceId = p.device_id
                                  /\ reqs[a].responses[1].token = p.token})

\* C6: a list request whose query succeeds is answered 200 with the stored
\* records; taken while no registration is in flight these are exactly the
\* pairs of the registrations answered 201 so far (none when there are none),
\* and no record comes from a registration answered 400 or 500.
C6_ListReturnsIssuedPairs ==
    \A i \in Reqs :
        (IsList(i) /\ Done(i) /\ reqs[i].result.error = "none") =>
            /\ Len(reqs[i].responses) = 1
            /\ Status(i) = 200
            /\ reqs[i].quiet =>
                  SameAsIssued(reqs[i].responses[1].devices, reqs[i].seen201)
            /\ Len(reqs[i].responses[1].devices) = Len(reqs[i].result.rows)
            /\ \A k \in 1..Len(reqs[i].result.rows) :
                  LET a == reqs[i].result.rows[k].by IN
                  /\ reqs[i].responses[1].devices[k].device_id = reqs[a].deviceId
                  /\ reqs[i].responses[1].devices[k].token = reqs[a].newToken
                  /\ Done(a) => Status(a) = 201

\* Two registrations were answered 201 and a list request, taken while none
\* was in flight, returned both.
C6_Witness ==
    \E i \in Reqs :
        /\ IsList(i) /\ Done(i) /\ reqs[i].quiet
        /\ Status(i) = 200
        /\ Len(reqs[i].responses[1].devices) = 2
        /\ Cardinality(reqs[i].seen201) = 2

\* C7: with both headers present, a failed authentication query is answered
\* 403 alone and the upload handler is not run.
C7_FailedAuthQueryIs403 ==
    \A u \in Reqs :
        (IsUpload(u) /\ Done(u) /\ HeadersPresent(u)
           /\ reqs[u].result.error # "none") =>
            /\ reqs[u].responses = <<Response(403, Absent, <<>>)>>
            /\ ~reqs[u].nextCalled

\* The datastore failed on the authentication query of an upload carrying
\* the credentials of a stored record, and the upload was answered 403.
C7_Witness ==
    \E u \in Reqs :
        /\ IsUpload(u) /\ Done(u) /\ reqs[u].result.error = "other"
        /\ reqs[u].nmatch = 1 /\ reqs[u].data
        /\ Status(u) = 403

\* C8: a registration without deviceId is answered 400 without a datastore
\* call; a failed existence check gives 500 and no insert; a failed insert
\* gives 500; a registration not answered 201 has added no record, and 201
\* follows a successful insert of its record.
C8_RegisterFailuresChangeNothing ==
    \A i \in Reqs :
        IsRegister(i) =>
            /\ reqs[i].deviceId = Absent =>
                  /\ reqs[i].responses = <<Response(400, Absent, <<>>)>>
                  /\ reqs[i].calls = 0 /\ Done(i)
            /\ (Done(i) /\ reqs[i].result.error = "other") =>
                  Status(i) = 500 /\ reqs[i].calls = 1
            /\ (Done(i) /\ reqs[i].insertError = "other") => Status(i) = 500
            /\ (Done(i) /\ Status(i) # 201) => RowsBy(i) = {}
            /\ (Answered(i) /\ Status(i) = 201) =>
                  /\ reqs[i].insertError = "none"
                  /\ \E k \in RowsBy(i) :
                        /\ devicesTable[k].device_id = reqs[i].deviceId
                        /\ devicesTable[k].token = reqs[i].responses[1].token

\* One registration failed on its existence check and one on its insert,
\* both answered 500, beside a stored record.
C8_Witness ==
    /\ Len(devicesTable) = 1
    /\ \E i, j \in Reqs :
          /\ IsRegister(i) /\ Done(i) /\ reqs[i].result.error = "other"
          /\ IsRegister(j) /\ Done(j) /\ reqs[j].insertError = "other"
          /\ Status(i) = 500 /\ Status(j) = 500

\* C9: the stored records change only by the insert of a register request,
\* which appends one record, the first of that request; every other step,
\* of any route, leaves them as they are.
C9_StoreOnlyGrowsByRegistration ==
    [][ \/ devicesTable' = devicesTable
        \/ \E i \in Reqs :
              /\ IsRegister(i) /\ reqs[i].pc = "insert" /\ RowsBy(i) = {}
              /\ Len(devicesTable') = Len(devicesTable) + 1
              /\ SubSeq(devicesTable', 1, Len(devicesTable)) = devicesTable
              /\ devicesTable'[Len(devicesTable')] =
                    [device_id |-> reqs[i].deviceId,
                     token |-> reqs[i].newToken, by |-> i] ]_vars

\* Two records of one device are stored and an upload was answered 200.
C9_Witness ==
    /\ Len(devicesTable) = 2
    /\ devicesTable[1].device_id = devicesTable[2].device_id
    /\ \E u \in Reqs : IsUpload(u) /\ Done(u) /\ Status(u) = 200

\* C10: every request receives exactly one response: never two, none while
\* its handler runs, one when it has finished, and it finishes.
C10_ExactlyOneResponse ==
    /\ [](\A i \in Reqs :
            /\ Len(reqs[i].responses) <= 1
            /\ Done(i) <=> Len(reqs[i].responses) = 1)
    /\ \A i \in 1..MaxLiveReqs :
          (i <= Len(reqs)) ~> (i <= Len(reqs) /\ Done(i) /\ Len(reqs[i].responses) = 1)

\* An upload rejected by authenticateDevice and a registration that went
\* through both datastore calls have one response each.
C10_Witness ==
    \E u, i \in Reqs :
        /\ IsUpload(u) /\ Done(u) /\ reqs[u].responses = <<Response(403, Absent, <<>>)>>
        /\ IsRegister(i) /\ Done(i) /\ reqs[i].calls = 2
        /\ Len(reqs[i].responses) = 1

====
